---- MODULE Spec2Model ----
(***************************************************************************)
(* Model of the label balancer (label_balancer.py) and of its geometric    *)
(* helpers (utils.py).                                                     *)
(*                                                                         *)
(*   Spec           one run of LabelBalancer(): feasibility gate, copy of  *)
(*                  the originals, sampling probabilities, weighted        *)
(*                  sample, the three concurrent DataAugmentation tasks    *)
(*                  and the as_completed loop.                             *)
(*   SpecAug        one call of DataAugmentation() on one label directory  *)
(*                  with an arbitrary target count and site grouping.      *)
(*   SpecTransform  one call of Data_augmentation() on an image of         *)
(*                  arbitrary shape.                                       *)
(*                                                                         *)
(* A label directory is the sequence of the site tokens of its files, in   *)
(* os.listdir order; a file is identified by its position in the listing.  *)
(* FACT and the zoom factors are kept in tenths (1.3 is 13).               *)
(***************************************************************************)
EXTENDS Integers, Sequences, FiniteSets, TLC

\* ------------------------------------------------------------- constants

THETA == 5

\* the zoom factor 1.3, in tenths
FACT == 13

MULTIPLIER == 6

TOTAL_MULTIPLIER == (MULTIPLIER * 2) + 1

\* theta += 5 and fact += 0.3 (in tenths) of DataAugmentation
ThetaStep == 5

FactStep == 3

\* --------------------------------------------------------------- bounds

\* images per label directory in a LabelBalancer run
MaxCount == 2

\* images in the directory of a lone DataAugmentation call
MaxImgs == 3

\* largest images_to_aumgment of a lone DataAugmentation call
MaxTarget == 14

\* largest image height and width of a Data_augmentation call
MaxDim == 6

Sites == {"a", "b"}

Labels == 1..6

Slots == 1..3

VARIABLES
    dir,                      \* dir[l]: listing of source label directory l
    pc,                       \* position of LabelBalancer
    dest,                     \* dest[l]: originals copied to destination label l
    written,                  \* written[l]: augmented images written to label l, in order
    images_to_augment,        \* the deficit
    p,                        \* <<p_label_1, p_label_2, p_label_3>>, exact fractions
    images_to_aug_per_label,  \* the per-label allocation
    task,                     \* task[t]: the DataAugmentation call of future t
    outcome,                  \* outcome[t]: what the as_completed loop printed for future t
    og_img,                   \* shape <<rows, cols>> of the image read by Data_augmentation
    aug_args,                 \* <<k, flipped>> of the last Data_augmentation call
    aug_img                   \* shape of the image Data_augmentation returned

vars == <<dir, pc, dest, written, images_to_augment, p, images_to_aug_per_label,
          task, outcome, og_img, aug_args, aug_img>>

\* ------------------------------------------------------------ arithmetic

Min(a, b) == IF a < b THEN a ELSE b

Max(a, b) == IF a > b THEN a ELSE b

Abs(a) == IF a < 0 THEN -a ELSE a

RECURSIVE GCD(_, _)
GCD(a, b) == IF b = 0 THEN a ELSE GCD(b, a % b)

\* a fraction <<numerator, denominator>> in lowest terms, denominator > 0
Rat(n, d) ==
    LET g == GCD(Abs(n), Abs(d))
        s == IF d < 0 THEN -1 ELSE 1
    IN  <<(s * n) \div g, (s * d) \div g>>

RatAdd(x, y) == Rat(x[1] * y[2] + y[1] * x[2], x[2] * y[2])

RatSub(x, y) == Rat(x[1] * y[2] - y[1] * x[2], x[2] * y[2])

RatDiv(x, y) == Rat(x[1] * y[2], x[2] * y[1])

RatLess(x, y) == x[1] * y[2] < y[1] * x[2]

\* floor and ceil of n / d for d > 0
FloorDiv(n, d) == n \div d

CeilDiv(n, d) == -((-n) \div d)

\* ------------------------------------------------------------- utils.py
\* An image is its shape <<rows, cols>>; the pixel content is not modelled.

Get_center(coord) == CeilDiv(coord - 1, 2)

Flip_img(img) == img

Pad_img(img) ==
    LET row == img[1]
        col == img[2]
        padding_lr == FloorDiv(col, 2)
        padding_tb == FloorDiv(row, 2)
    IN  <<row + padding_tb + padding_tb, col + padding_lr + padding_lr>>

\* cv.warpAffine(img, matrix, (col, row)): the canvas keeps its size
Rotate_img(img, theta) == <<img[1], img[2]>>

\* cvRound(n / d): to the nearest integer, a tie to the even one
CvRound(n, d) ==
    LET q == FloorDiv(n, d)
        r == n - q * d
    IN  IF 2 * r < d THEN q
        ELSE IF 2 * r > d THEN q + 1
        ELSE IF q % 2 = 0 THEN q ELSE q + 1

\* cv.resize(img, None, fx=FACT, fy=FACT): dsize = round(cols*fx), round(rows*fy);
\* fact is in tenths
Upsample_img(img, fact) == <<CvRound(img[1] * fact, 10), CvRound(img[2] * fact, 10)>>

\* Python's a[start:stop] on an axis of length n: the number of elements kept
SliceLen(start, stop, n) ==
    LET lo == IF start < 0 THEN Max(start + n, 0) ELSE Min(start, n)
        hi == IF stop < 0 THEN Max(stop + n, 0) ELSE Min(stop, n)
    IN  Max(hi - lo, 0)

Center_crop(img, og) ==
    LET row == img[1]
        col == img[2]
        og_row == og[1]
        og_col == og[2]
        centerx == Get_center(col)
        centery == Get_center(row)
        ogx == Get_center(og_col)
        ogy == Get_center(og_row)
    IN  <<SliceLen(centery - ogy, centery + ogy, row),
          SliceLen(centerx - ogx, centerx + ogx, col)>>

Data_augmentation(img, theta, fact, flipped) ==
    IF flipped = FALSE
    THEN LET pad == Pad_img(img)
             rot == Rotate_img(pad, theta)
             up == Upsample_img(rot, fact)
         IN  Center_crop(up, img)
    ELSE LET flip == Flip_img(img)
             pad == Pad_img(flip)
             rot == Rotate_img(pad, theta)
             up == Upsample_img(rot, fact)
         IN  Center_crop(up, img)

\* sorted(dict.items(), key=lambda item: item[1]): stable, ascending by count.
\* InsertItem puts x after every item whose count is not larger.
InsertItem(sorted, x) ==
    LET k == Cardinality({j \in 1..Len(sorted) : sorted[j][2] <= x[2]})
    IN  SubSeq(sorted, 1, k) \o <<x>> \o SubSeq(sorted, k + 1, Len(sorted))

RECURSIVE SortItems(_)
SortItems(items) ==
    IF items = <<>> THEN <<>>
    ELSE InsertItem(SortItems(SubSeq(items, 1, Len(items) - 1)), items[Len(items)])

\* sorted(..., reverse=True): descending by count
SortDict_descending(dict) ==
    LET asc == SortItems(dict)
    IN  [k \in 1..Len(asc) |-> asc[Len(asc) + 1 - k]]

SortDict(dict) == SortItems(dict)

\* ------------------------------------------- DataAugmentation: grouping

\* site_ids_count after the first n files of the listing: the dict's items
\* <<site_id, count>> in insertion order
RECURSIVE CountSites(_, _)
CountSites(image_list, n) ==
    IF n = 0 THEN <<>>
    ELSE LET d == CountSites(image_list, n - 1)
             site_id == image_list[n]
         IN  IF \E k \in 1..Len(d) : d[k][1] = site_id
             THEN [k \in 1..Len(d) |->
                      IF d[k][1] = site_id THEN <<site_id, d[k][2] + 1>> ELSE d[k]]
             ELSE Append(d, <<site_id, 1>>)

site_ids_count(image_list) == CountSites(image_list, Len(image_list))

\* site_path[site_id]: the files of the site, in listing order
RECURSIVE PathsOf(_, _, _)
PathsOf(image_list, site_id, n) ==
    IF n = 0 THEN <<>>
    ELSE IF image_list[n] = site_id
         THEN Append(PathsOf(image_list, site_id, n - 1), n)
         ELSE PathsOf(image_list, site_id, n - 1)

site_path(image_list, site_id) == PathsOf(image_list, site_id, Len(image_list))

\* ------------------------------------------------- DataAugmentation: loop

IdleTask ==
    [status |-> "idle", label |-> 0, images_to_aumgment |-> 0, sorted_list |-> <<>>,
     element |-> 1, site_index |-> 0, i |-> 0, counter |-> 1,
     switch |-> -1, theta |-> THETA, fact |-> FACT, switch_ended |-> 1]

\* DataAugmentation(images_to_aumgment, label_dir, dest_dir, label) up to the
\* first iteration of its loops
NewTask(target, label) ==
    [IdleTask EXCEPT !.status = "running", !.label = label,
                     !.images_to_aumgment = target,
                     !.sorted_list = SortDict(site_ids_count(dir[label]))]

\* the files of the site group the outer loop is at
ElementPaths(tk) == site_path(dir[tk.label], tk.sorted_list[tk.element][1])

\* the check with >= for >
ReachedEnough_inclusive(counter, target) == counter >= target

\* if counter > images_to_aumgment: ... return
ReachedEnough(counter, target) == counter > target

\* the loop step with theta and fact raised after the first of each pair of
\* variants (switch_ended % 2 = 1) instead of after the second
Advance_early(tk, wrote) ==
    LET stepped == [tk EXCEPT !.counter = IF wrote THEN @ + 1 ELSE @,
                              !.switch = @ * (-1),
                              !.theta = IF tk.switch_ended % 2 = 1 THEN @ + ThetaStep ELSE @,
                              !.fact = IF tk.switch_ended % 2 = 1 THEN @ + FactStep ELSE @,
                              !.switch_ended = @ + 1,
                              !.i = @ + 1]
        next_image == [stepped EXCEPT !.i = 0, !.site_index = @ + 1, !.switch = -1,
                                      !.theta = THETA, !.fact = FACT, !.switch_ended = 1]
        next_element == [next_image EXCEPT !.site_index = 0, !.element = @ + 1]
    IN  IF stepped.i < MULTIPLIER * 2 THEN stepped
        ELSE IF next_image.site_index < Len(site_path(dir[tk.label], tk.sorted_list[tk.element][1]))
             THEN next_image
        ELSE next_element

\* the loop variables at the next iteration of the three nested loops
Advance(tk, wrote) ==
    LET stepped == [tk EXCEPT !.counter = IF wrote THEN @ + 1 ELSE @,
                              !.switch = @ * (-1),
                              !.theta = IF tk.switch_ended % 2 = 0 THEN @ + ThetaStep ELSE @,
                              !.fact = IF tk.switch_ended % 2 = 0 THEN @ + FactStep ELSE @,
                              !.switch_ended = @ + 1,
                              !.i = @ + 1]
        next_image == [stepped EXCEPT !.i = 0, !.site_index = @ + 1, !.switch = -1,
                                      !.theta = THETA, !.fact = FACT, !.switch_ended = 1]
        next_element == [next_image EXCEPT !.site_index = 0, !.element = @ + 1]
    IN  IF stepped.i < MULTIPLIER * 2 THEN stepped
        ELSE IF next_image.site_index < Len(ElementPaths(tk)) THEN next_image
        ELSE next_element

InLoop(tk) == tk.status = "running" /\ tk.element <= Len(tk.sorted_list)

\* one iteration of "for i in range(MULTIPLIER*2)" that writes a variant
AugmentImage(t) ==
    LET tk == task[t] IN
    /\ InLoop(tk)
    /\ ~ReachedEnough(tk.counter, tk.images_to_aumgment)
    /\ tk.switch \in {-1, 1}
    /\ LET site == ElementPaths(tk)[tk.site_index + 1]
           flipped == (tk.switch = 1)
           new_file == [site_id |-> tk.sorted_list[tk.element][1],
                        site_index |-> tk.site_index, i |-> tk.i, site |-> site,
                        theta |-> tk.theta, fact |-> tk.fact, flipped |-> flipped]
       IN  /\ written' = [written EXCEPT ![tk.label] = Append(@, new_file)]
           /\ task' = [task EXCEPT ![t] = Advance(tk, TRUE)]
    /\ UNCHANGED <<dir, pc, dest, images_to_augment, p, images_to_aug_per_label,
                   outcome, og_img, aug_args, aug_img>>

\* the same iteration when Data_augmentation or cv.imwrite raises (an image
\* that cannot be read, a write that fails): the exception leaves the call
AugmentRaises(t) ==
    LET tk == task[t] IN
    /\ InLoop(tk)
    /\ ~ReachedEnough(tk.counter, tk.images_to_aumgment)
    /\ task' = [task EXCEPT ![t].status = "raised"]
    /\ UNCHANGED <<dir, pc, dest, written, images_to_augment, p,
                   images_to_aug_per_label, outcome, og_img, aug_args, aug_img>>

\* "Reached enough images, balancing is finished": return
ReturnEnough(t) ==
    LET tk == task[t] IN
    /\ InLoop(tk)
    /\ ReachedEnough(tk.counter, tk.images_to_aumgment)
    /\ task' = [task EXCEPT ![t].status = "returned"]
    /\ UNCHANGED <<dir, pc, dest, written, images_to_augment, p,
                   images_to_aug_per_label, outcome, og_img, aug_args, aug_img>>

\* every site group and image went through its MULTIPLIER*2 iterations: the
\* function falls off its loops
ReturnExhausted(t) ==
    LET tk == task[t] IN
    /\ tk.status = "running"
    /\ tk.element > Len(tk.sorted_list)
    /\ task' = [task EXCEPT ![t].status = "returned"]
    /\ UNCHANGED <<dir, pc, dest, written, images_to_augment, p,
                   images_to_aug_per_label, outcome, og_img, aug_args, aug_img>>

\* --------------------------------------------------------- LabelBalancer

category_1_count == Len(dir[1]) + Len(dir[2]) + Len(dir[3])

category_2_count == Len(dir[4]) + Len(dir[5]) + Len(dir[6])

\* the branch taken at "if category_1_count > category_2_count"
Case1 == category_1_count > category_2_count

\* the category whose labels are augmented: 2 in case 1, 1 in case 2
DeficientBase == IF Case1 THEN 3 ELSE 0

\* all_label_dirs[i+3] / all_label_dirs[i] of the submit loop, as a label
TaskLabel(t) == DeficientBase + t

Deficit == IF Case1 THEN category_1_count - category_2_count
           ELSE category_2_count - category_1_count

\* "if category_1_count * TOTAL_MULTIPLIER < images_to_augment": the same
\* comparison in both branches
Infeasible(count_1, to_augment) == count_1 * TOTAL_MULTIPLIER < to_augment

\* Copy_dir(src, dst): the destination label directory holds the source's files
Copy_dir(label_dir) == label_dir

\* category_2_count_split in case 1, category_1_count_split in case 2
count_split == [k \in Slots |-> Len(dir[DeficientBase + k])]

DeficientCount == IF Case1 THEN category_2_count ELSE category_1_count

\* the label's share itself, without the complement
ComplementWeight_share(count, total) == Rat(count, total)

\* p_label = 1 - (count_split[k] / category_count)
ComplementWeight(count, total) == RatSub(Rat(1, 1), Rat(count, total))

\* the three weights divided by p_total
Normalize(w) ==
    LET p_total == RatAdd(RatAdd(w[1], w[2]), w[3])
    IN  [k \in Slots |-> RatDiv(w[k], p_total)]

\* np.random.choice([1, 2, 3], size, p=..., replace=True): the arrays it can
\* return, each given by how often 1, 2 and 3 occur in it
Samples(size, prob) ==
    {s \in [Slots -> 0..size] :
        /\ s[1] + s[2] + s[3] = size
        /\ \A k \in Slots : s[k] > 0 => prob[k][1] > 0}

\* the tally with sample.count(2) in the place of sample.count(3)
TallySample_repeated(sample) == <<sample[1], sample[2], sample[2]>>

\* [sample.count(1), sample.count(2), sample.count(3)]
TallySample(sample) == <<sample[1], sample[2], sample[3]>>

\* lines 212-222 and 286-296: the run stops at the feasibility gate
AbortInfeasible ==
    /\ pc = "start"
    /\ Infeasible(category_1_count, Deficit)
    /\ images_to_augment' = Deficit
    /\ pc' = "AbortedInfeasible"
    /\ UNCHANGED <<dir, dest, written, p, images_to_aug_per_label, task, outcome,
                   og_img, aug_args, aug_img>>

\* lines 224-226 and 298-300: the gate lets the run through
ProceedToAugment ==
    /\ pc = "start"
    /\ ~Infeasible(category_1_count, Deficit)
    /\ images_to_augment' = Deficit
    /\ pc' = "copy"
    /\ UNCHANGED <<dir, dest, written, p, images_to_aug_per_label, task, outcome,
                   og_img, aug_args, aug_img>>

\* executor.map(Copy_dir, all_label_dirs, dest_label_dirs) and the wait at the
\* end of the with block
CopyOriginals ==
    /\ pc = "copy"
    /\ dest' = [l \in Labels |-> Copy_dir(dir[l])]
    /\ pc' = "probabilities"
    /\ UNCHANGED <<dir, written, images_to_augment, p, images_to_aug_per_label,
                   task, outcome, og_img, aug_args, aug_img>>

\* lines 236-250 and 310-324; a deficient category without images divides by
\* zero and LabelBalancer raises ZeroDivisionError
ComputeProbabilities ==
    /\ pc = "probabilities"
    /\ IF DeficientCount = 0
       THEN pc' = "Raised" /\ UNCHANGED p
       ELSE /\ p' = Normalize([k \in Slots |->
                                  ComplementWeight(count_split[k], DeficientCount)])
            /\ pc' = "sample"
    /\ UNCHANGED <<dir, dest, written, images_to_augment, images_to_aug_per_label,
                   task, outcome, og_img, aug_args, aug_img>>

\* lines 252-256 and 326-330
SampleLabels ==
    /\ pc = "sample"
    /\ \E sample \in Samples(images_to_augment, p) :
          images_to_aug_per_label' = TallySample(sample)
    /\ pc' = "print"
    /\ UNCHANGED <<dir, dest, written, images_to_augment, p, task, outcome,
                   og_img, aug_args, aug_img>>

\* lines 258-264 and 332-338: both branches print with category_1_count_split,
\* a local that only case 2 assigns; in case 1 the read raises UnboundLocalError
PrintExpectedCounts ==
    /\ pc = "print"
    /\ pc' = IF Case1 THEN "Raised" ELSE "submit"
    /\ UNCHANGED <<dir, dest, written, images_to_augment, p, images_to_aug_per_label,
                   task, outcome, og_img, aug_args, aug_img>>

\* lines 266-276 and 340-350: one executor.submit per label of the deficient
\* category
SubmitTasks ==
    /\ pc = "submit"
    /\ task' = [t \in Slots |-> NewTask(images_to_aug_per_label[t], TaskLabel(t))]
    /\ pc' = "pool"
    /\ UNCHANGED <<dir, dest, written, images_to_augment, p, images_to_aug_per_label,
                   outcome, og_img, aug_args, aug_img>>

Finished(tk) == tk.status \in {"returned", "raised"}

\* the end of the with block: ThreadPoolExecutor.__exit__ waits for every future
ExitPool ==
    /\ pc = "pool"
    /\ \A t \in Slots : Finished(task[t])
    /\ pc' = "as_completed"
    /\ UNCHANGED <<dir, dest, written, images_to_augment, p, images_to_aug_per_label,
                   task, outcome, og_img, aug_args, aug_img>>

\* future.result() outside any try: the task's exception leaves the loop
TryResult_uncaught(status) ==
    IF status = "raised" THEN [printed |-> "error", propagates |-> TRUE]
    ELSE [printed |-> "ok", propagates |-> FALSE]

\* try: future.result() ... except Exception as e: what is printed for the
\* future, and whether the exception leaves the loop
TryResult(status) ==
    IF status = "raised" THEN [printed |-> "error", propagates |-> FALSE]
    ELSE [printed |-> "ok", propagates |-> FALSE]

\* one iteration of "for future in as_completed(futures)"
FutureResult(t) ==
    /\ pc = "as_completed"
    /\ outcome[t] = "pending"
    /\ LET r == TryResult(task[t].status)
       IN  /\ outcome' = [outcome EXCEPT ![t] = r.printed]
           /\ pc' = IF r.propagates THEN "Raised" ELSE pc
    /\ UNCHANGED <<dir, dest, written, images_to_augment, p, images_to_aug_per_label,
                   task, og_img, aug_args, aug_img>>

\* the loop is over and LabelBalancer returns
ReturnCompleted ==
    /\ pc = "as_completed"
    /\ \A t \in Slots : outcome[t] # "pending"
    /\ pc' = "Completed"
    /\ UNCHANGED <<dir, dest, written, images_to_augment, p, images_to_aug_per_label,
                   task, outcome, og_img, aug_args, aug_img>>

\* --------------------------------------------------------- specifications

\* a directory of n files: the last one of site "b", the others of site "a"
ListingOf(n) == [k \in 1..n |-> IF k = n /\ n > 1 THEN "b" ELSE "a"]

\* label 1 may also hold enough images to leave category 2 short of the gate
DirCounts(l) == IF l = 1 THEN 0..MaxCount \cup {TOTAL_MULTIPLIER + 2} ELSE 0..MaxCount

\* every listing of at most n files over Sites
Listings(n) == UNION {[1..k -> Sites] : k \in 0..n}

NoWrites == [l \in Labels |-> <<>>]

Init ==
    /\ \E first \in DirCounts(1), c \in [Labels -> 0..MaxCount] :
          /\ \A l \in Labels : c[l] \in DirCounts(l)
          /\ dir = [l \in Labels |-> ListingOf(IF l = 1 THEN first ELSE c[l])]
    /\ pc = "start"
    /\ dest = NoWrites
    /\ written = NoWrites
    /\ images_to_augment = 0
    /\ p = <<>>
    /\ images_to_aug_per_label = <<0, 0, 0>>
    /\ task = [t \in Slots |-> IdleTask]
    /\ outcome = [t \in Slots |-> "pending"]
    /\ og_img = <<0, 0>>
    /\ aug_args = <<>>
    /\ aug_img = <<>>

Next ==
    \/ AbortInfeasible
    \/ ProceedToAugment
    \/ CopyOriginals
    \/ ComputeProbabilities
    \/ SampleLabels
    \/ PrintExpectedCounts
    \/ SubmitTasks
    \/ \E t \in Slots : AugmentImage(t)
    \/ \E t \in Slots : AugmentRaises(t)
    \/ \E t \in Slots : ReturnEnough(t)
    \/ \E t \in Slots : ReturnExhausted(t)
    \/ ExitPool
    \/ \E t \in Slots : FutureResult(t)
    \/ ReturnCompleted

Spec == Init /\ [][Next]_vars

\* one call DataAugmentation(target, label_dir, dest_dir, "L1") on label 1
InitAug ==
    /\ \E listing \in Listings(MaxImgs) :
          dir = [l \in Labels |-> IF l = 1 THEN listing ELSE <<>>]
    /\ pc = "call"
    /\ dest = NoWrites
    /\ written = NoWrites
    /\ images_to_augment = 0
    /\ p = <<>>
    /\ images_to_aug_per_label = <<0, 0, 0>>
    /\ task = [t \in Slots |-> IdleTask]
    /\ outcome = [t \in Slots |-> "pending"]
    /\ og_img = <<0, 0>>
    /\ aug_args = <<>>
    /\ aug_img = <<>>

CallDataAugmentation ==
    /\ pc = "call"
    /\ \E target \in (-1)..MaxTarget :
          task' = [task EXCEPT ![1] = NewTask(target, 1)]
    /\ pc' = "DataAugmentation"
    /\ UNCHANGED <<dir, dest, written, images_to_augment, p, images_to_aug_per_label,
                   outcome, og_img, aug_args, aug_img>>

NextAug ==
    \/ CallDataAugmentation
    \/ \E t \in Slots : AugmentImage(t)
    \/ \E t \in Slots : AugmentRaises(t)
    \/ \E t \in Slots : ReturnEnough(t)
    \/ \E t \in Slots : ReturnExhausted(t)

SpecAug == InitAug /\ [][NextAug]_vars

\* the (angle, zoom) pair of the k-th angle step of the scheduler
VariantTheta(k) == THETA + ThetaStep * k

VariantFact(k) == FACT + FactStep * k

InitTransform ==
    /\ og_img \in (1..MaxDim) \X (1..MaxDim)
    /\ dir = NoWrites
    /\ pc = "Data_augmentation"
    /\ dest = NoWrites
    /\ written = NoWrites
    /\ images_to_augment = 0
    /\ p = <<>>
    /\ images_to_aug_per_label = <<0, 0, 0>>
    /\ task = [t \in Slots |-> IdleTask]
    /\ outcome = [t \in Slots |-> "pending"]
    /\ aug_args = <<>>
    /\ aug_img = <<>>

CallData_augmentation ==
    /\ pc = "Data_augmentation"
    /\ \E k \in 0..(MULTIPLIER - 1), flipped \in BOOLEAN :
          /\ aug_args' = <<k, flipped>>
          /\ aug_img' = Data_augmentation(og_img, VariantTheta(k), VariantFact(k), flipped)
    /\ UNCHANGED <<dir, pc, dest, written, images_to_augment, p,
                   images_to_aug_per_label, task, outcome, og_img>>

NextTransform == CallData_augmentation

SpecTransform == InitTransform /\ [][NextTransform]_vars

\* ------------------------------------------------------------ properties

\* files in destination label l: the copied originals and the augmented images
OutCount(l) == Len(dest[l]) + Len(written[l])

NoTaskRaised == \A t \in Slots : task[t].status # "raised"

\* the positions after lines 256 / 330, where images_to_aug_per_label is set
Allocated == pc \in {"print", "submit", "pool", "as_completed", "Completed"}

Dispatched == \A t \in Slots : task[t].status # "idle"

\* 2 x MULTIPLIER variants for each of the n images of a directory
Budget(n) == 2 * MULTIPLIER * n

\* C1: whenever LabelBalancer does not stop at the feasibility gate (and no
\* augmentation task fails), the run ends with as many images in out/1..3 as
\* in out/4..6.
C1_BalancedOutput ==
    (pc \in {"Completed", "Raised"} /\ NoTaskRaised)
        => OutCount(1) + OutCount(2) + OutCount(3)
             = OutCount(4) + OutCount(5) + OutCount(6)

\* C2: in both orientations, when the deficient category's image count times
\* TOTAL_MULTIPLIER is less than the deficit, LabelBalancer never gets past the
\* gate and nothing is written to the destination tree.
C2_InfeasibleNeverWrites ==
    (DeficientCount * TOTAL_MULTIPLIER < Deficit)
        => /\ pc \in {"start", "AbortedInfeasible"}
           /\ dest = NoWrites
           /\ written = NoWrites

\* C3: a run ends either Completed (all six directories copied and the three
\* augmentation tasks of the deficient category dispatched) or
\* AbortedInfeasible (nothing written); there is no third way to end.
C3_TwoTerminalOutcomes ==
    (pc \in {"Completed", "AbortedInfeasible", "Raised"})
        => \/ /\ pc = "Completed"
              /\ \A l \in Labels : dest[l] = dir[l]
              /\ Dispatched
           \/ /\ pc = "AbortedInfeasible"
              /\ dest = NoWrites
              /\ written = NoWrites

\* C4: the image Data_augmentation returns has the rows and columns of the
\* image it read, for every shape, scheduled (angle, zoom) pair and flip.
C4_SameShape == (aug_img # <<>>) => aug_img = og_img

\* C5: a DataAugmentation call never writes more than its target, and a call
\* that returns has written exactly min(max(target, 0), 2 x MULTIPLIER x n)
\* images, n being the number of images of its label directory.
C5_WritesMinTargetBudget ==
    \A t \in Slots :
        LET tk == task[t] IN
        tk.status # "idle" =>
            /\ Len(written[tk.label]) <= Max(tk.images_to_aumgment, 0)
            /\ Len(written[tk.label]) <= Budget(Len(dir[tk.label]))
            /\ tk.status = "returned" =>
                  Len(written[tk.label])
                      = Min(Max(tk.images_to_aumgment, 0), Budget(Len(dir[tk.label])))

\* a call that returned because its target was reached in the middle of the
\* variants of its second image
C5_Witness ==
    /\ task[1].status = "returned"
    /\ Len(written[1]) = task[1].images_to_aumgment
    /\ Len(written[1]) > 2 * MULTIPLIER
    /\ Len(written[1]) < Budget(Len(dir[1]))

\* C6: once sampled, the three allocation counts are non-negative and sum to
\* the deficit, and they are the targets handed to the three DataAugmentation
\* calls.
C6_AllocationSumsToDeficit ==
    /\ Allocated =>
          /\ \A k \in Slots : images_to_aug_per_label[k] >= 0
          /\ images_to_aug_per_label[1] + images_to_aug_per_label[2]
                + images_to_aug_per_label[3] = Deficit
    /\ Dispatched =>
          /\ \A t \in Slots : task[t].images_to_aumgment = images_to_aug_per_label[t]
          /\ task[1].images_to_aumgment + task[2].images_to_aumgment
                + task[3].images_to_aumgment = Deficit

\* three calls dispatched with a deficit spread over at least two labels
C6_Witness ==
    /\ Dispatched
    /\ Deficit >= 3
    /\ Cardinality({t \in Slots : task[t].images_to_aumgment > 0}) >= 2

\* C7: the count allocated to a label of the deficient category never exceeds
\* the label's image count times the total variant multiplier.
C7_AllocationWithinCapacity ==
    Allocated =>
        \A k \in Slots :
            images_to_aug_per_label[k] <= count_split[k] * TOTAL_MULTIPLIER

\* the sum of three fractions
RatSum3(q) == RatAdd(RatAdd(q[1], q[2]), q[3])

\* C8: the normalized probabilities are non-negative, sum to 1 and fall
\* strictly as the label count rises; equal counts give equal probabilities.
C8_ProbabilitiesFavourSmallLabels ==
    (p # <<>>) =>
        /\ \A k \in Slots : ~RatLess(p[k], Rat(0, 1))
        /\ RatSum3(p) = Rat(1, 1)
        /\ \A j, k \in Slots :
              /\ count_split[j] < count_split[k] => RatLess(p[k], p[j])
              /\ count_split[j] = count_split[k] => p[j] = p[k]

\* probabilities computed for one smaller label and two equal larger ones
C8_Witness ==
    /\ p # <<>>
    /\ \E i, j, k \in Slots :
          /\ j # k
          /\ 0 < count_split[i]
          /\ count_split[i] < count_split[j]
          /\ count_split[j] = count_split[k]

\* C9: once the three tasks are dispatched LabelBalancer never raises; it
\* leaves the pool only when all three have finished; a task that returned
\* wrote its full share whatever happened to the others; and at the end each
\* future was reported on its own, an error for exactly the tasks that raised.
C9_FailuresAreIsolated ==
    /\ Dispatched => pc # "Raised"
    /\ pc \in {"as_completed", "Completed"} => \A t \in Slots : Finished(task[t])
    /\ Dispatched =>
          \A t \in Slots :
              task[t].status = "returned" =>
                  Len(written[task[t].label])
                      = Min(task[t].images_to_aumgment,
                            Budget(Len(dir[task[t].label])))
    /\ pc = "Completed" =>
          \A t \in Slots :
              outcome[t] = IF task[t].status = "raised" THEN "error" ELSE "ok"

\* a completed run in which one task raised and another wrote its images
C9_Witness ==
    /\ pc = "Completed"
    /\ \E t, u \in Slots :
          /\ task[t].status = "raised"
          /\ outcome[t] = "error"
          /\ task[u].status = "returned"
          /\ outcome[u] = "ok"
          /\ Len(written[task[u].label]) > 0

\* images of site s in label directory l
SiteCount(l, s) == Cardinality({k \in 1..Len(dir[l]) : dir[l][k] = s})

\* the positions in the write log of label l of the variants of file f
VariantsOf(l, f) == {j \in 1..Len(written[l]) : written[l][j].site = f}

\* C10: within one call the writes go by site group in ascending image count,
\* then by image in listing order, then by variant index from 0; so an image
\* of a larger site gets a variant only after every image of every strictly
\* smaller site has all its 2 x MULTIPLIER variants, and at most one image is
\* left with some but not all of its variants.
C10_SmallSitesFirst ==
    \A t \in Slots :
        LET l == task[t].label
            w == written[l]
            files == 1..Len(dir[l])
        IN  task[t].status # "idle" =>
            /\ \A j, k \in 1..Len(w) :
                  j < k =>
                      /\ SiteCount(l, w[j].site_id) <= SiteCount(l, w[k].site_id)
                      /\ w[j].site_id = w[k].site_id => w[j].site <= w[k].site
                      /\ w[j].site = w[k].site => w[j].i < w[k].i
            /\ \A j \in 1..Len(w) : dir[l][w[j].site] = w[j].site_id
            /\ \A f \in files :
                  {w[j].i : j \in VariantsOf(l, f)}
                      = 0..(Cardinality(VariantsOf(l, f)) - 1)
            /\ \A x, y \in files :
                  (/\ SiteCount(l, dir[l][x]) < SiteCount(l, dir[l][y])
                   /\ VariantsOf(l, y) # {})
                      => Cardinality(VariantsOf(l, x)) = 2 * MULTIPLIER
            /\ Cardinality({f \in files :
                              /\ VariantsOf(l, f) # {}
                              /\ Cardinality(VariantsOf(l, f)) < 2 * MULTIPLIER}) <= 1

\* the image of the smaller site, listed last, has all its variants and an
\* image of the larger site has some of them
C10_Witness ==
    \E x, y \in 1..Len(dir[1]) :
        /\ x > y
        /\ SiteCount(1, dir[1][x]) < SiteCount(1, dir[1][y])
        /\ Cardinality(VariantsOf(1, x)) = 2 * MULTIPLIER
        /\ VariantsOf(1, y) # {}
        /\ Cardinality(VariantsOf(1, y)) < 2 * MULTIPLIER

\* the angles and the flips of the writes of label l, in write order
WrittenThetas(l) == [j \in 1..Len(written[l]) |-> written[l][j].theta]

WrittenFlips(l) == [j \in 1..Len(written[l]) |-> written[l][j].flipped]

====
